---- MODULE Spec2Model ----
(***************************************************************************)
(* Model of custom-app-rich-presence (src/src/main.rs).                    *)
(*                                                                         *)
(*   Spec      one `config <subcommand>` invocation of main() after the    *)
(*             other, each loading the persisted Config, applying one      *)
(*             editor function and writing the Config back on success.     *)
(*   LoopSpec  app_loop(): the poll loop over a Config snapshot.           *)
(*                                                                         *)
(* Indices are 0-based as in the source; Seq access adds one.              *)
(***************************************************************************)
EXTENDS Integers, Sequences, FiniteSets, TLC

\* ------------------------------------------------------------------ bounds
MaxTargets == 3      \* longest target list the editor is driven to
MaxTime    == 4      \* seconds (ticks) the poll loop is followed for

\* u32::MAX, the value `0u32 - 1` wraps to in a build without overflow checks.
\* TLC's integers are 32-bit signed, so the largest representable integer
\* stands for it; it is above every index argument, which is all clamp reads.
U32_MAX == 2147483647

\* ------------------------------------------------------------------ inputs
\* Process names. "None" is also the string app_loop stores after a clear.
ProcNames == {"None", "code", "vlc"}

\* One character is a one-character string; a text is a sequence of them.
Rep(c, n) == [i \in 1..n |-> c]

\* Option<T>
None == [some |-> FALSE]
Some(v) == [some |-> TRUE, v |-> v]
Opt(S) == {None} \cup {Some(v) : v \in S}

Images == {"img1", "img2"}
ShortDisplay == <<"V", "S", " ", "C", "o", "d", "e">>
OtherDisplay == <<"V", "L", "C">>
Displays == {ShortDisplay, OtherDisplay}

Indexes == 0..(MaxTargets + 1)   \* --index / --set arguments, past the end too
ClientIds == {0, 1}
Builds == {"debug", "release"}   \* overflow checks on / off

\* ------------------------------------------------------------------ state
VARIABLES
    stored,    \* the persisted Config (targets.json), as get_config reads it
    before,    \* the Config the running invocation loaded
    config,    \* its in-memory Config when it ended
    cmd,       \* its subcommand and arguments; NoCmd when no process runs
    result,    \* how it ended: "Ok", "Err" (an Err returned) or "Panic"
    written,   \* whether it reached write_config
    pc,        \* app_loop: "off" (not started), "loop" or "panicked"
    last_detected_process,   \* app_loop's local of that name
    now,       \* SystemTime::now(), in seconds since the loop started
    presence,  \* what the presence service shows: Some(activity) or None
    announced, \* what the service was last told: Unset, Cleared or Showing(name)
    tick,      \* the latest loop iteration: its process snapshot, its calls,
               \* the seconds it slept, the values it started from and, in
               \* prev, what the iteration before it slept and called
    display_name,  \* a target's display_name handed to the layout code
    laid_out   \* NotLaidOut, or what the layout code made of display_name

evars == <<stored, before, config, cmd, result, written>>
lvars == <<pc, last_detected_process, now, presence, announced, tick>>
dvars == <<display_name, laid_out>>
vars == <<stored, before, config, cmd, result, written,
          pc, last_detected_process, now, presence, announced, tick,
          display_name, laid_out>>

\* ------------------------------------------------------------------ helpers
Names(targets) == {targets[k].process_name : k \in 1..Len(targets)}

\* Vec::insert(index, x); the caller has checked index <= len.
VecInsert(s, index, x) ==
    SubSeq(s, 1, index) \o <<x>> \o SubSeq(s, index + 1, Len(s))

\* Vec::remove(index)
VecRemove(s, index) ==
    SubSeq(s, 1, index) \o SubSeq(s, index + 2, Len(s))

\* Ord::clamp(self, min, max)
Clamp(x, lo, hi) == IF x < lo THEN lo ELSE IF x > hi THEN hi ELSE x

Ok(c) == [res |-> "Ok", config |-> c]
Err(c) == [res |-> "Err", config |-> c]
Panic(c) == [res |-> "Panic", config |-> c]

\* Config::default()
DefaultConfig == [client_id |-> 0, targets |-> <<>>]

\* get_process_index: Some(0-based index of the first match) or None
get_process_index(targets, process) ==
    IF \E k \in 1..Len(targets) : targets[k].process_name = process
    THEN Some((CHOOSE k \in 1..Len(targets) :
                  /\ targets[k].process_name = process
                  /\ \A j \in 1..(k - 1) : targets[j].process_name # process) - 1)
    ELSE None

\* A guard that lets every name through.
AddAcceptsAnyName(targets, process) == FALSE

\* add_process, the guard: .any(|target| target.process_name == new_target.process)
add_name_taken(targets, process) ==
    \E k \in 1..Len(targets) : targets[k].process_name = process

\* add_process, `config.targets.len() as u32 - 1`: Some(value), or None where
\* the subtraction panics (overflow checks on).
add_index_max(len, build) ==
    IF len = 0
    THEN IF build = "debug" THEN None ELSE Some(U32_MAX)
    ELSE Some(len - 1)

\* add_process. new_target = [process, display, image, index : Option<u32>].
add_process(c, new_target, build) ==
    IF add_name_taken(c.targets, new_target.process)
    THEN Err(c)
    ELSE
    LET target == [process_name |-> new_target.process,
                   display_name |-> new_target.display,
                   image |-> new_target.image]
        len == Len(c.targets)
        max == add_index_max(len, build)
    IN  IF new_target.index.some
        THEN IF ~max.some
             THEN Panic(c)                  \* attempt to subtract with overflow
             ELSE LET index == Clamp(new_target.index.v, 0, max.v)
                  IN  IF index > len
                      THEN Panic(c)         \* Vec::insert: index > len
                      ELSE Ok([c EXCEPT !.targets = VecInsert(c.targets, index, target)])
        ELSE Ok([c EXCEPT !.targets = Append(c.targets, target)])

\* remove_process
remove_process(c, process) ==
    LET found == get_process_index(c.targets, process)
    IN  IF ~found.some THEN Err(c)
        ELSE Ok([c EXCEPT !.targets = VecRemove(c.targets, found.v)])

\* Increase and Decrease taken for each other.
MovesTheOtherWay(index, len, operation) ==
    CASE operation.kind = "Decrease" -> Clamp(index - 1, 0, len - 1)
      [] operation.kind = "Increase" -> Clamp(index + 1, 0, len - 1)
      [] operation.kind = "Set" -> Clamp(operation.index, 0, len - 1)

\* An index past the end wrapped round to the front instead of clamped.
WrapsPastTheEnd(index, len, operation) ==
    CASE operation.kind = "Decrease" -> (index + 1) % len
      [] operation.kind = "Increase" -> Clamp(index - 1, 0, len - 1)
      [] operation.kind = "Set" -> operation.index % len

\* move_process, the match on operation: the index the entry is moved to.
move_new_index(index, len, operation) ==
    CASE operation.kind = "Decrease" -> Clamp(index + 1, 0, len - 1)
      [] operation.kind = "Increase" -> Clamp(index - 1, 0, len - 1)
      [] operation.kind = "Set" -> Clamp(operation.index, 0, len - 1)

\* move_process. operation = [kind : "Increase" | "Decrease" | "Set", index]
move_process(c, process, operation) ==
    LET found == get_process_index(c.targets, process)
    IN  IF ~found.some THEN Err(c)
        ELSE
        LET index == found.v
            new_index == move_new_index(index, Len(c.targets), operation)
        IN  IF new_index = index THEN Ok(c)
            ELSE LET target == c.targets[index + 1]
                 IN  Ok([c EXCEPT !.targets =
                            VecInsert(VecRemove(c.targets, index), new_index, target)])

\* edit_process, the guard: .any(|target| target.process_name == process)
edit_name_taken(targets, process) ==
    \E k \in 1..Len(targets) : targets[k].process_name = process

\* The edits in another order: display and image first, the rename and its
\* early return last.
EditFieldsBeforeRename(c, index, edits) ==
    LET k == index + 1
        c1 == IF edits.display.some
              THEN [c EXCEPT !.targets[k].display_name = edits.display.v] ELSE c
        c2 == IF edits.image.some
              THEN [c1 EXCEPT !.targets[k].image = edits.image.v] ELSE c1
    IN  IF edits.process_edit.some
        THEN IF edit_name_taken(c.targets, edits.process_edit.v)
             THEN Err(c2)
             ELSE Ok([c2 EXCEPT !.targets[k].process_name = edits.process_edit.v])
        ELSE Ok(c2)

\* edit_process, the statements after the index lookup, in source order: the
\* rename (or its early return), then display, then image.
edit_apply(c, index, edits) ==
    LET k == index + 1
    IN  IF edits.process_edit.some /\ edit_name_taken(c.targets, edits.process_edit.v)
        THEN Err(c)
        ELSE
        LET c1 == IF edits.process_edit.some
                  THEN [c EXCEPT !.targets[k].process_name = edits.process_edit.v] ELSE c
            c2 == IF edits.display.some
                  THEN [c1 EXCEPT !.targets[k].display_name = edits.display.v] ELSE c1
            c3 == IF edits.image.some
                  THEN [c2 EXCEPT !.targets[k].image = edits.image.v] ELSE c2
        IN  Ok(c3)

\* edit_process. edits = [process_edit, display, image], each an Option.
edit_process(c, process, edits) ==
    LET found == get_process_index(c.targets, process)
    IN  IF ~found.some THEN Err(c) ELSE edit_apply(c, found.v, edits)

\* main(), the `?` after the match on the subcommand: write_config is reached
\* only when the editor function returned Ok.
reaches_write_config(res) == res = "Ok"

\* main(), the `config` subcommands: Cli::parse, get_config, the match,
\* write_config. Yields the outcome and the Config left in storage.
main(loaded, command) ==
    LET r == CASE command.op = "Add" ->
                      add_process(loaded, command.new_target, command.build)
               [] command.op = "Edit" ->
                      edit_process(loaded, command.process, command.flags)
               [] command.op = "Id" ->
                      Ok([loaded EXCEPT !.client_id = command.client_id])
               [] command.op = "List" -> Ok(loaded)
               [] command.op = "Remove" -> remove_process(loaded, command.process)
               [] command.op = "Reorder" ->
                      move_process(loaded, command.process, command.flags)
        w == reaches_write_config(r.res)
    IN  [res |-> r.res, config |-> r.config, written |-> w,
         stored |-> IF w THEN r.config ELSE loaded]

\* ------------------------------------------------------------------ layout
\* The display-name split of app_loop. A text is a sequence of characters;
\* "U+00E9" stands for a character that takes two bytes in UTF-8.
LIMIT == 35

IsWhitespace(c) == c = " "
Utf8Len(c) == IF c = "U+00E9" THEN 2 ELSE 1

RECURSIVE ByteLen(_)
ByteLen(s) == IF s = <<>> THEN 0 ELSE Utf8Len(Head(s)) + ByteLen(Tail(s))

\* str::split_whitespace: the maximal runs of non-whitespace characters
RECURSIVE SplitFrom(_, _, _)
SplitFrom(s, i, word) ==
    LET done == IF word = <<>> THEN <<>> ELSE <<word>>
    IN  IF i > Len(s) THEN done
        ELSE IF IsWhitespace(s[i]) THEN done \o SplitFrom(s, i + 1, <<>>)
        ELSE SplitFrom(s, i + 1, Append(word, s[i]))

split_whitespace(s) == SplitFrom(s, 1, <<>>)

\* The words put together with nothing between them.
RECURSIVE JoinsWithoutSpace(_)
JoinsWithoutSpace(words) ==
    IF words = <<>> THEN <<>> ELSE words[1] \o JoinsWithoutSpace(Tail(words))

\* [&str]::join(" ")
RECURSIVE join(_)
join(words) ==
    IF words = <<>> THEN <<>>
    ELSE IF Len(words) = 1 THEN words[1]
    ELSE words[1] \o <<" ">> \o join(Tail(words))

\* str::trim
trim(s) ==
    LET keep == {i \in 1..Len(s) : ~IsWhitespace(s[i])}
    IN  IF keep = {} THEN <<>>
        ELSE SubSeq(s, CHOOSE i \in keep : \A j \in keep : i <= j,
                       CHOOSE i \in keep : \A j \in keep : i >= j)

\* String::split_off(at), at in bytes: Some([head, tail]), or None where it
\* panics because at is not on a character boundary.
split_off(s, at) ==
    LET cuts == {k \in 0..Len(s) : ByteLen(SubSeq(s, 1, k)) = at}
    IN  IF cuts = {} THEN None
        ELSE LET k == CHOOSE k \in cuts : TRUE
             IN  Some([head |-> SubSeq(s, 1, k), tail |-> SubSeq(s, k + 1, Len(s))])

\* A comparison that stops one character early.
WordFitsStrictly(details, word) == Len(details) + Len(word) < LIMIT

\* `if details.chars().count() + word.chars().count() <= 35`
word_fits(details, word) == Len(details) + Len(word) <= LIMIT

\* The `for (index, word) in words.iter().enumerate()` loop, from index on.
RECURSIVE add_words(_, _, _)
add_words(words, index, details) ==
    IF index >= Len(words) THEN [details |-> details, state |-> <<>>]
    ELSE LET word == words[index + 1]
         IN  IF word_fits(details, word)
             THEN add_words(words, index + 1, details \o <<" ">> \o word)
             ELSE [details |-> details,
                   state |-> join(SubSeq(words, index + 1, Len(words)))]

\* The length taken in bytes (str::len) instead of characters.
ExceedsLimitInBytes(text) == ByteLen(text) > LIMIT

\* `if target.display_name.chars().count() > 35`
exceeds_limit(text) == Len(text) > LIMIT

\* details and state as the if-block leaves them: Some([details, state]), or
\* None where split_off panics.
layout(text) ==
    IF exceeds_limit(text)
    THEN LET words == split_whitespace(text)
         IN  IF Len(words) <= 1 \/ Len(words[1]) > LIMIT
             THEN LET cut == split_off(text, LIMIT)
                  IN  IF cut.some
                      THEN Some([details |-> cut.v.head, state |-> cut.v.tail])
                      ELSE None
             ELSE Some(add_words(words, 0, <<>>))
    ELSE Some([details |-> text, state |-> <<>>])

\* Activity::new().assets(..).details(details.trim()).timestamps(..), and
\* .state(state.trim()) if !state.is_empty()
new_activity(target, lines, start_time) ==
    [large_image |-> target.image,
     details |-> trim(lines.details),
     start |-> start_time,
     state |-> IF lines.state # <<>> THEN Some(trim(lines.state)) ELSE None]

\* ------------------------------------------------------------------ app_loop
Unset == [tag |-> "Unset"]
Cleared == [tag |-> "None"]
Showing(name) == [tag |-> "Some", name |-> name]

\* The test the other way round (`if let Some(_)`).
TakesRunningForAbsent(target, running) == target.process_name \in running

\* `if let None = processes.processes_by_exact_name(name).next()`
target_absent(target, running) == target.process_name \notin running

\* inside that branch: whether this absent target makes the loop clear the
\* activity
clears_activity(index, len, last) == index = len - 1 /\ last # "None"

\* A loop that never takes the break.
NeverSkipsUpdate(last, target) == FALSE

\* `if last_detected_process == target.process_name { break; }`
already_detected(last, target) == last = target.process_name

\* The body of `for (index, target) in config.targets.iter().enumerate()`,
\* from index on. st = [last, presence, announced, calls, panicked]; running
\* is the refreshed process list; ok says whether this iteration's presence
\* call succeeds (unwrap panics when it does not).
RECURSIVE for_targets(_, _, _, _, _, _)
for_targets(targets, running, index, st, time, ok) ==
    IF index >= Len(targets) THEN st
    ELSE
    LET target == targets[index + 1]
    IN  IF target_absent(target, running)
        THEN IF clears_activity(index, Len(targets), st.last)
             THEN LET call == [call |-> "clear_activity", index |-> index, ok |-> ok]
                  IN  IF ~ok
                      THEN [st EXCEPT !.calls = Append(@, call), !.panicked = TRUE]
                      ELSE for_targets(targets, running, index + 1,
                               [st EXCEPT !.calls = Append(@, call),
                                          !.last = "None",
                                          !.presence = None,
                                          !.announced = Cleared],
                               time, ok)
             ELSE for_targets(targets, running, index + 1, st, time, ok)
        ELSE IF already_detected(st.last, target)
        THEN st
        ELSE
        LET st1 == [st EXCEPT !.last = target.process_name]
            lines == layout(target.display_name)
        IN  IF ~lines.some
            THEN [st1 EXCEPT !.panicked = TRUE]
            ELSE
            LET activity == new_activity(target, lines.v, time)
                call == [call |-> "set_activity", index |-> index, ok |-> ok]
            IN  IF ~ok
                THEN [st1 EXCEPT !.calls = Append(@, call), !.panicked = TRUE]
                ELSE [st1 EXCEPT !.calls = Append(@, call),
                                 !.presence = Some(activity),
                                 !.announced = Showing(target.process_name)]

\* sleep(Duration::from_secs(1)), in seconds
TICK_SECS == 1

\* A loop whose break or continue leaves the iteration before the sleep.
SleepsOnlyWhenIdle(st) ==
    IF st.panicked \/ st.calls # <<>> THEN 0 ELSE TICK_SECS

\* The seconds an iteration sleeps once the for loop is left with st: the
\* sleep follows the for loop on every path but a panic.
sleep_secs(st) == IF st.panicked THEN 0 ELSE TICK_SECS

\* One iteration of `loop { .. }`: refresh, the for loop, sleep.
Tick ==
    /\ pc = "loop"
    /\ now < MaxTime
    /\ \E running \in SUBSET ProcNames, ok \in BOOLEAN :
          \E st \in {for_targets(config.targets, running, 0,
                        [last |-> last_detected_process, presence |-> presence,
                         announced |-> announced, calls |-> <<>>, panicked |-> FALSE],
                        now, ok)} :
              /\ last_detected_process' = st.last
              /\ presence' = st.presence
              /\ announced' = st.announced
              /\ tick' = [ran |-> TRUE, running |-> running, calls |-> st.calls,
                          slept |-> sleep_secs(st),
                          prev |-> IF tick.ran
                                   THEN Some([slept |-> tick.slept,
                                              called |-> tick.calls # <<>>])
                                   ELSE None,
                          last |-> last_detected_process,
                          presence |-> presence, announced |-> announced]
              /\ pc' = IF st.panicked THEN "panicked" ELSE "loop"
              /\ now' = now + sleep_secs(st)
    /\ UNCHANGED evars
    /\ UNCHANGED dvars

NoTick == [ran |-> FALSE]

\* Display names and images of the targets the loop is started with.
LongWords ==
    Rep("a", 10) \o <<" ">> \o Rep("b", 12) \o <<" ">> \o Rep("c", 11)
        \o <<" ">> \o Rep("d", 6)
LongWord == Rep("x", 40)

TargetOf(name) ==
    [process_name |-> name,
     display_name |-> CASE name = "code" -> ShortDisplay
                        [] name = "vlc" -> LongWords
                        [] OTHER -> LongWord,
     image |-> IF name = "code" THEN "img1" ELSE "img2"]

\* Target lists as the editor leaves them: process names pairwise distinct.
TargetLists ==
    UNION {{[k \in 1..n |-> TargetOf(f[k])] :
               f \in {g \in [1..n -> ProcNames] :
                         \A i, j \in 1..n : i # j => g[i] # g[j]}} :
           n \in 0..MaxTargets}

\* ------------------------------------------------------------------ editor
NoCmd == [op |-> "none"]

\* One run of the binary with a `config` subcommand, start to end.
Invoke(command) ==
    /\ cmd = NoCmd
    /\ \E out \in {main(stored, command)} :
           /\ before' = stored
           /\ cmd' = command
           /\ config' = out.config
           /\ result' = out.res
           /\ written' = out.written
           /\ stored' = out.stored
    /\ UNCHANGED lvars
    /\ UNCHANGED dvars

ConfigAdd ==
    /\ Len(stored.targets) < MaxTargets
    /\ \E p \in ProcNames, d \in Displays, i \in Images, ix \in Opt(Indexes), b \in Builds :
          Invoke([op |-> "Add", build |-> b,
                  new_target |-> [process |-> p, display |-> d, image |-> i, index |-> ix]])

\* #[group(multiple = true, required = true)]: at least one flag is given.
ConfigEdit ==
    \E p \in ProcNames, pe \in Opt(ProcNames), d \in Opt(Displays), i \in Opt(Images) :
        /\ pe.some \/ d.some \/ i.some
        /\ Invoke([op |-> "Edit", process |-> p,
                   flags |-> [process_edit |-> pe, display |-> d, image |-> i]])

ConfigId ==
    \E id \in ClientIds : Invoke([op |-> "Id", client_id |-> id])

ConfigList == Invoke([op |-> "List"])

ConfigRemove ==
    \E p \in ProcNames : Invoke([op |-> "Remove", process |-> p])

\* From<CliConfigReorder>: exactly one of --increase, --decrease, --set.
ReorderOperations ==
    {[kind |-> "Increase"], [kind |-> "Decrease"]}
        \cup {[kind |-> "Set", index |-> i] : i \in Indexes}

ConfigReorder ==
    \E p \in ProcNames, o \in ReorderOperations :
        Invoke([op |-> "Reorder", process |-> p, flags |-> o])

\* The process ends; what it held in memory is gone, the file stays.
ProcessExit ==
    /\ cmd # NoCmd
    /\ cmd' = NoCmd
    /\ before' = DefaultConfig
    /\ config' = DefaultConfig
    /\ result' = "Ok"
    /\ written' = FALSE
    /\ UNCHANGED stored
    /\ UNCHANGED lvars
    /\ UNCHANGED dvars

LoopOff ==
    /\ pc = "off"
    /\ last_detected_process = ""
    /\ now = 0
    /\ presence = None
    /\ announced = Unset
    /\ tick = NoTick

NotLaidOut == [done |-> FALSE]

LayoutOff ==
    /\ display_name = <<>>
    /\ laid_out = NotLaidOut

Init ==
    /\ stored = DefaultConfig
    /\ before = DefaultConfig
    /\ config = DefaultConfig
    /\ cmd = NoCmd
    /\ result = "Ok"
    /\ written = FALSE
    /\ LoopOff
    /\ LayoutOff

Next ==
    \/ ConfigAdd
    \/ ConfigEdit
    \/ ConfigId
    \/ ConfigList
    \/ ConfigRemove
    \/ ConfigReorder
    \/ ProcessExit

Spec == Init /\ [][Next]_vars

\* app_loop(config) at `let mut last_detected_process = "";`, the client
\* connected, for a Config that get_config read.
LoopInit ==
    /\ \E ts \in TargetLists, id \in ClientIds :
          /\ stored = [client_id |-> id, targets |-> ts]
          /\ config = stored
          /\ before = stored
    /\ cmd = [op |-> "Run"]
    /\ result = "Ok"
    /\ written = FALSE
    /\ pc = "loop"
    /\ last_detected_process = ""
    /\ now = 0
    /\ presence = None
    /\ announced = Unset
    /\ tick = NoTick
    /\ LayoutOff

LoopNext == Tick

LoopSpec == LoopInit /\ [][LoopNext]_vars

\* ------------------------------------------------------------------ layout alone
\* The layout code of app_loop (from `let mut details` to the activity built
\* for set_activity) applied to one display_name.
MaxPieces == 5       \* pieces a display_name is put together from

Pieces == {<<" ">>, <<"a">>, Rep("b", 17), Rep("c", 18), <<"U+00E9">>}

RECURSIVE Texts(_)
Texts(n) ==
    IF n = 0 THEN {<<>>}
    ELSE {<<>>} \cup {piece \o text : piece \in Pieces, text \in Texts(n - 1)}

\* "Short title"
ShortTitle == <<"S", "h", "o", "r", "t", " ", "t", "i", "t", "l", "e">>

\* "Alpha Bravo Charlie Delta Echo Foxtrot Golf"
AlphaToGolf ==
    <<"A", "l", "p", "h", "a", " ", "B", "r", "a", "v", "o", " ",
      "C", "h", "a", "r", "l", "i", "e", " ", "D", "e", "l", "t", "a", " ",
      "E", "c", "h", "o", " ", "F", "o", "x", "t", "r", "o", "t", " ",
      "G", "o", "l", "f">>

\* "Supercalifragilisticexpialidocious extra words"
Supercali ==
    <<"S", "u", "p", "e", "r", "c", "a", "l", "i", "f", "r", "a", "g", "i",
      "l", "i", "s", "t", "i", "c", "e", "x", "p", "i", "a", "l", "i", "d",
      "o", "c", "i", "o", "u", "s">>
SupercaliExtraWords ==
    Supercali \o <<" ", "e", "x", "t", "r", "a", " ", "w", "o", "r", "d", "s">>

DisplayInputs == Texts(MaxPieces) \cup {ShortTitle, AlphaToGolf, SupercaliExtraWords}

\* The target the display_name belongs to, and the second it is announced in.
LaidOutTarget == [process_name |-> "code", display_name |-> display_name,
                  image |-> "img1"]

LayOut ==
    /\ ~laid_out.done
    /\ \E lines \in {layout(display_name)} :
           laid_out' = [done |-> TRUE,
                        lines |-> lines,
                        activity |-> IF lines.some
                                     THEN Some(new_activity(LaidOutTarget, lines.v, 0))
                                     ELSE None]
    /\ UNCHANGED display_name
    /\ UNCHANGED evars
    /\ UNCHANGED lvars

LayoutInit ==
    /\ stored = DefaultConfig
    /\ before = DefaultConfig
    /\ config = DefaultConfig
    /\ cmd = NoCmd
    /\ result = "Ok"
    /\ written = FALSE
    /\ LoopOff
    /\ display_name \in DisplayInputs
    /\ laid_out = NotLaidOut

LayoutNext == LayOut

LayoutSpec == LayoutInit /\ [][LayoutNext]_vars

\* ------------------------------------------------------------------ claims
\* The priority resolver of the specification: Some(0-based index of the first
\* target whose process is running) or None.
Resolved(targets, running) ==
    LET hits == {i \in 0..(Len(targets) - 1) : targets[i + 1].process_name \in running}
    IN  IF hits = {} THEN None ELSE Some(CHOOSE i \in hits : \A j \in hits : i <= j)

TickResolved == Resolved(config.targets, tick.running)
ResolvedName == config.targets[TickResolved.v + 1].process_name
Calls(kind) == {k \in 1..Len(tick.calls) : tick.calls[k].call = kind}
NoCallFailed == \A k \in 1..Len(tick.calls) : tick.calls[k].ok

\* C1: a tick announces (set_activity) a target at index i only if no target
\* at an index j < i is running in that tick's process snapshot.
C1_OnlyFirstRunningAnnounced ==
    tick.ran =>
        \A k \in Calls("set_activity") :
            \A j \in 0..(tick.calls[k].index - 1) :
                config.targets[j + 1].process_name \notin tick.running

\* C1 witness: a higher-priority target takes over from the lower-priority
\* one that was announced before and is still running.
C1_Witness ==
    /\ tick.ran
    /\ \E k \in Calls("set_activity") :
          \E j \in (tick.calls[k].index + 1)..(Len(config.targets) - 1) :
              /\ config.targets[j + 1].process_name \in tick.running
              /\ tick.announced = Showing(config.targets[j + 1].process_name)

\* C2: set_activity is called only in a tick whose resolved target is not the
\* identity the service was last told; while the resolved target is the one
\* already announced the tick makes no call and the activity shown, its start
\* timestamp included, stays as it was.
C2_UpdateOnlyOnChange ==
    tick.ran =>
        /\ Calls("set_activity") # {} =>
              /\ TickResolved.some
              /\ tick.announced # Showing(ResolvedName)
        /\ (TickResolved.some /\ tick.announced = Showing(ResolvedName)) =>
              /\ tick.calls = <<>>
              /\ presence = tick.presence
              /\ announced = tick.announced

\* C2 witness: the same target resolved again, its activity kept with a start
\* timestamp from an earlier tick.
C2_Witness ==
    /\ tick.ran
    /\ TickResolved.some
    /\ tick.announced = Showing(ResolvedName)
    /\ tick.calls = <<>>
    /\ presence.some
    /\ presence.v.start + 2 <= now

\* C3: when a tick resolves a target and the service shows nothing or another
\* process, the tick calls set_activity for that target and the announced
\* identity becomes its process_name, whatever the name is. (Stated for ticks
\* whose presence calls succeed; failing calls are C6.)
C3_UpdateWhenIdleOrDifferent ==
    (/\ tick.ran
     /\ NoCallFailed
     /\ TickResolved.some
     /\ tick.announced # Showing(ResolvedName))
    => /\ \E k \in Calls("set_activity") : tick.calls[k].index = TickResolved.v
       /\ announced = Showing(ResolvedName)

\* C4: when no target is running in a tick and the previous presence call was
\* an update, the tick calls clear_activity and the announced identity becomes
\* none, whatever process was shown. (Stated for ticks whose calls succeed.)
C4_ClearWhenNothingRuns ==
    (/\ tick.ran
     /\ NoCallFailed
     /\ ~TickResolved.some
     /\ tick.announced.tag = "Some")
    => /\ Calls("clear_activity") # {}
       /\ announced = Cleared

\* The announced identity as none or a process name: before the first call
\* nothing is announced.
Identity(a) == IF a = Unset THEN Cleared ELSE a

\* C5: a tick makes at most one presence call, and makes one if and only if
\* the announced identity (none, or a process name) at its end differs from
\* the one at its start. (Stated for ticks whose calls succeed.)
C5_CallIffIdentityChanges ==
    (tick.ran /\ NoCallFailed) =>
        /\ Len(tick.calls) <= 1
        /\ (tick.calls # <<>>) <=> (Identity(announced) # Identity(tick.announced))

\* C6: a tick whose presence call fails leaves the loop running and the
\* tracked identity where it was, so that the next tick retries.
C6_FailedCallIsRetried ==
    (tick.ran /\ ~NoCallFailed) =>
        /\ pc = "loop"
        /\ last_detected_process = tick.last

\* C7: an editor invocation that returns an Err leaves the in-memory Config
\* as loaded, does not reach write_config and leaves the stored Config as it
\* was.
C7_FailureLeavesConfig ==
    (cmd # NoCmd /\ result = "Err") =>
        /\ config = before
        /\ ~written
        /\ stored = before

\* C7 witness: an Edit of a present entry, with a new display name, rejected
\* for its new process name.
C7_Witness ==
    /\ cmd # NoCmd
    /\ cmd.op = "Edit"
    /\ result = "Err"
    /\ cmd.process \in Names(before.targets)
    /\ cmd.flags.process_edit.some
    /\ cmd.flags.display.some
    /\ \E k \in 1..Len(before.targets) :
          /\ before.targets[k].process_name = cmd.process
          /\ before.targets[k].display_name # cmd.flags.display.v

Distinct(targets) ==
    \A i, j \in 1..Len(targets) :
        i # j => targets[i].process_name # targets[j].process_name

\* C8: from the empty default Config, after any sequence of editor
\* invocations the process names of the targets are pairwise distinct, in the
\* stored Config and in the Config an invocation holds in memory.
C8_NamesDistinct == Distinct(stored.targets) /\ Distinct(config.targets)

\* C8 witness: an Add of a name that is already in a list of two or more.
C8_Witness ==
    /\ cmd # NoCmd
    /\ cmd.op = "Add"
    /\ Len(before.targets) >= 2
    /\ cmd.new_target.process \in Names(before.targets)

Min(a, b) == IF a <= b THEN a ELSE b

\* C9: Add of a process_name not yet present succeeds, the list grows by the
\* new entry alone, and the entry is at index min(i, n-1) for an index i on a
\* list of length n > 0, at the end otherwise.
C9_AddInsertsClamped ==
    (/\ cmd # NoCmd
     /\ cmd.op = "Add"
     /\ cmd.new_target.process \notin Names(before.targets))
    => LET n == Len(before.targets)
           ix == cmd.new_target.index
           pos == IF ix.some /\ n > 0 THEN Min(ix.v, n - 1) ELSE n
       IN  /\ result = "Ok"
           /\ Len(config.targets) = n + 1
           /\ config.targets[pos + 1] =
                  [process_name |-> cmd.new_target.process,
                   display_name |-> cmd.new_target.display,
                   image |-> cmd.new_target.image]
           /\ VecRemove(config.targets, pos) = before.targets

\* C10: Edit of a present entry fails exactly when new_process_name is the
\* name of a different entry; otherwise it succeeds and changes the supplied
\* fields of that entry and nothing else.
C10_EditRejectsOnlyOtherNames ==
    (/\ cmd # NoCmd
     /\ cmd.op = "Edit"
     /\ cmd.process \in Names(before.targets))
    => LET k == CHOOSE k \in 1..Len(before.targets) :
                    before.targets[k].process_name = cmd.process
           f == cmd.flags
           old == before.targets[k]
           collides == /\ f.process_edit.some
                       /\ \E j \in 1..Len(before.targets) :
                             j # k /\ before.targets[j].process_name = f.process_edit.v
           new == [process_name |-> IF f.process_edit.some THEN f.process_edit.v
                                    ELSE old.process_name,
                   display_name |-> IF f.display.some THEN f.display.v
                                    ELSE old.display_name,
                   image |-> IF f.image.some THEN f.image.v ELSE old.image]
       IN  IF collides
           THEN result = "Err"
           ELSE /\ result = "Ok"
                /\ config = [before EXCEPT !.targets[k] = new]

Max(a, b) == IF a >= b THEN a ELSE b

\* The index the specification gives a reordered entry: k the entry's index,
\* n the length of the list.
ReorderTarget(k, n, operation) ==
    CASE operation.kind = "Increase" -> Max(k - 1, 0)
      [] operation.kind = "Decrease" -> Min(k + 1, n - 1)
      [] operation.kind = "Set" -> Min(operation.index, n - 1)

ReorderOfPresent ==
    /\ cmd # NoCmd
    /\ cmd.op = "Reorder"
    /\ cmd.process \in Names(before.targets)

ReorderFrom ==
    (CHOOSE k \in 1..Len(before.targets) :
        before.targets[k].process_name = cmd.process) - 1

\* C11: Reorder of a present entry at index k of n succeeds and leaves the
\* same targets with that entry at max(k-1, 0), min(k+1, n-1) or min(i, n-1)
\* and all other entries in their former relative order.
C11_ReorderMovesClamped ==
    ReorderOfPresent =>
        LET k == ReorderFrom
            pos == ReorderTarget(k, Len(before.targets), cmd.flags)
        IN  /\ result = "Ok"
            /\ Len(config.targets) = Len(before.targets)
            /\ config.targets[pos + 1] = before.targets[k + 1]
            /\ VecRemove(config.targets, pos) = VecRemove(before.targets, k)
            /\ config.client_id = before.client_id
            /\ stored = config

\* C11 witness: an entry of a list of three moved to another index.
C11_Witness ==
    /\ ReorderOfPresent
    /\ Len(before.targets) = 3
    /\ result = "Ok"
    /\ config.targets # before.targets

\* C17: a Reorder whose resulting index is the entry's current index reports
\* success and leaves the target list as it was.
C17_NoOpReorder ==
    (/\ ReorderOfPresent
     /\ ReorderTarget(ReorderFrom, Len(before.targets), cmd.flags) = ReorderFrom)
    => /\ result = "Ok"
       /\ config = before
       /\ stored = before

\* C17 witness: Decrease of the last entry of a list of two or more.
C17_Witness ==
    /\ ReorderOfPresent
    /\ cmd.flags.kind = "Decrease"
    /\ Len(before.targets) >= 2
    /\ ReorderFrom = Len(before.targets) - 1
    /\ result = "Ok"

\* C14: a tick in which no target is running and nothing is announced (the
\* state at loop start included) makes no presence call.
C14_IdleTickMakesNoCall ==
    (/\ tick.ran
     /\ ~TickResolved.some
     /\ Identity(tick.announced) = Cleared)
    => tick.calls = <<>>

\* C15: every iteration that is followed by another one, and every iteration
\* the loop survives, ends with one sleep of TICK_SECS, and no iteration makes
\* two presence calls: two calls are at least one sleep apart.
C15_OneSleepPerTick ==
    tick.ran =>
        /\ Len(tick.calls) <= 1
        /\ pc = "loop" => tick.slept = TICK_SECS
        /\ tick.prev.some => tick.prev.v.slept = TICK_SECS

\* C15 witness: presence calls in two consecutive iterations.
C15_Witness ==
    /\ tick.ran
    /\ tick.prev.some
    /\ tick.prev.v.called
    /\ tick.calls # <<>>
    /\ pc = "loop"

\* ------------------------------------------------------------------ layout claims
\* What the layout made of display_name: line1 and line2 as the presence
\* service gets them (line2 empty where no state is sent).
LaidOutOk == laid_out.done /\ laid_out.lines.some
Line1 == laid_out.activity.v.details
Line2 == IF laid_out.activity.v.state.some THEN laid_out.activity.v.state.v ELSE <<>>

NameWords == split_whitespace(display_name)

\* The number of leading words of words that, joined by single spaces, take
\* at most limit characters.
FittingWords(words, limit) ==
    LET fit == {0} \cup {k \in 1..Len(words) : Len(join(SubSeq(words, 1, k))) <= limit}
    IN  CHOOSE k \in fit : \A j \in fit : j <= k

\* The greedy case: more than 35 characters, two words or more, the first of
\* at most 35 characters.
GreedyCase ==
    /\ Len(display_name) > LIMIT
    /\ Len(NameWords) >= 2
    /\ Len(NameWords[1]) <= LIMIT

\* C12: in the greedy case line1 is the longest prefix of whole words that,
\* joined by single spaces, takes at most 35 characters (the first word at
\* least), and line2 is the remaining words in order, joined by single spaces.
C12_GreedyWholeWords ==
    (laid_out.done /\ GreedyCase) =>
        LET k == FittingWords(NameWords, LIMIT)
        IN  /\ laid_out.lines.some
            /\ k >= 1
            /\ Line1 = join(SubSeq(NameWords, 1, k))
            /\ Line2 = join(SubSeq(NameWords, k + 1, Len(NameWords)))
            /\ split_whitespace(Line1) \o split_whitespace(Line2) = NameWords

\* C12 witness: a name whose first two words fill line1 to exactly 35
\* characters, the third word going to line2.
C12_Witness ==
    /\ LaidOutOk
    /\ GreedyCase
    /\ FittingWords(NameWords, LIMIT) = 2
    /\ Len(Line1) = LIMIT
    /\ Line2 # <<>>

\* The hard-split case: more than 35 characters, and one word only or a
\* first word of more than 35 characters.
HardSplitCase ==
    /\ Len(display_name) > LIMIT
    /\ \/ Len(NameWords) = 1
       \/ Len(NameWords) >= 1 /\ Len(NameWords[1]) > LIMIT

\* C13: in the hard-split case the layout does not fail, line1 is the first
\* 35 characters of display_name and line2 the characters after them, each
\* trimmed, also where the name holds multi-byte characters.
C13_HardSplitByCharacters ==
    (laid_out.done /\ HardSplitCase) =>
        /\ laid_out.lines.some
        /\ laid_out.lines.v.details = SubSeq(display_name, 1, LIMIT)
        /\ laid_out.lines.v.state = SubSeq(display_name, LIMIT + 1, Len(display_name))
        /\ Line1 = trim(SubSeq(display_name, 1, LIMIT))
        /\ Line2 = trim(SubSeq(display_name, LIMIT + 1, Len(display_name)))

\* C16: an update carries a state exactly when line2, trimmed, is not empty,
\* and never carries an empty state.
C16_StateIffLine2NotEmpty ==
    LaidOutOk =>
        /\ laid_out.activity.v.state.some <=> trim(laid_out.lines.v.state) # <<>>
        /\ laid_out.activity.v.state.some => laid_out.activity.v.state.v # <<>>

\* C18: a display_name of at most 35 characters (the empty one and one of
\* exactly 35 included) is laid out without failure as line1 = display_name,
\* trimmed, and an empty line2, and the update carries no state.
C18_ShortNameOnOneLine ==
    (laid_out.done /\ Len(display_name) <= LIMIT) =>
        /\ laid_out.lines.some
        /\ laid_out.lines.v.state = <<>>
        /\ Line1 = trim(display_name)
        /\ ~laid_out.activity.v.state.some

\* C18 witness: a name of exactly 35 characters that takes more than 35 bytes.
C18_Witness ==
    /\ LaidOutOk
    /\ Len(display_name) = LIMIT
    /\ ByteLen(display_name) > LIMIT
    /\ Line1 = display_name

\* "extra words"
ExtraWords == <<"e", "x", "t", "r", "a", " ", "w", "o", "r", "d", "s">>

\* C19: "Supercalifragilisticexpialidocious extra words" comes out as the
\* hard split gives it: line1 the first 35 characters of the string, line2 the
\* rest, each trimmed.
C19_SupercaliSplitAt35 ==
    (laid_out.done /\ display_name = SupercaliExtraWords) =>
        /\ laid_out.lines.some
        /\ Line1 = trim(SubSeq(display_name, 1, LIMIT))
        /\ Line2 = trim(SubSeq(display_name, LIMIT + 1, Len(display_name)))
        /\ Line1 = Supercali
        /\ Line2 = ExtraWords

\* C19 witness: that name laid out, with a state sent.
C19_Witness ==
    /\ LaidOutOk
    /\ display_name = SupercaliExtraWords
    /\ Len(display_name) > LIMIT
    /\ laid_out.activity.v.state.some

====
